---- MODULE Spec2Model ----
(***************************************************************************)
(* testgen.py: the stimulus generator of the packet scheduler testbench.   *)
(*                                                                         *)
(* The script is one straight-line procedure.  Its state is the two lists  *)
(* random_flow and random_numbers, the list a comprehension is building,   *)
(* the open file objects, the position of the running for loop, the files  *)
(* on disk and what was printed.  The random source and the disk found at  *)
(* start-up are inputs: every draw is chosen with \E, and Init chooses the *)
(* disk.  draws, opened and disk0 are history variables: the values the    *)
(* random source returned, the files opened so far, the disk at start-up.  *)
(*                                                                         *)
(* The loop counts of the script (64 pool entries, indices 0..63, 2048     *)
(* lines a file) are scaled down to PoolSize, MaxIndex and NumLines; the   *)
(* word width, the modulus and the field width are the script's own.       *)
(* A file is a sequence of characters; write() is modelled unbuffered.     *)
(***************************************************************************)
EXTENDS Integers, Sequences, FiniteSets, TLC

VARIABLES pc, random_flow, random_numbers, comp, handles, it, fs,
          stdout, error, draws, opened, disk0

vars == <<pc, random_flow, random_numbers, comp, handles, it, fs,
          stdout, error, draws, opened, disk0>>

(***************************************************************************)
(* Sizes.                                                                  *)
(***************************************************************************)
\* range(64) of line 4, scaled.
PoolSize == 2
\* the upper end of randint(0,63) of line 6, scaled with PoolSize.
MaxIndex == 1
\* range(2048) of lines 6, 14 and 21, scaled.
NumLines == 2
\* getrandbits(32)
Bits == 32
\* % 32 of line 21
GapModulus == 32
\* the field width of the format spec 08x
Width == 8

(***************************************************************************)
(* Integers.  A value of the script is a Python int.  A 32-bit draw does   *)
(* not fit the model checker's integers, so a value is kept as two limbs,  *)
(* value = hi * 2^16 + lo with 0 <= lo < 2^16, and the script's arithmetic *)
(* (// 16, % 16 inside the formatting, % 32, comparisons) is done on limbs.*)
(***************************************************************************)
Limb == 2^16

\* the int hi * 2^16 + lo.
Int2(h, l) == [hi |-> h, lo |-> l]
\* a small int.
Small(n) == Int2(n \div Limb, n % Limb)
\* 2^k - 1, for k >= 16.
Ones(k) == Int2(2^(k - 16) - 1, Limb - 1)
\* n // d and n % d for a small d that divides 2^16.
FloorDiv(n, d) == Int2(n.hi \div d, (n.hi % d) * (Limb \div d) + (n.lo \div d))
Mod(n, d) == n.lo % d
\* n < m for a small m.
Below(n, m) == n.hi = 0 /\ n.lo < m

(***************************************************************************)
(* The random source.                                                      *)
(***************************************************************************)
\* random.getrandbits(k) returns an integer of 0 .. 2^k - 1; the model draws
\* the largest one, 2^k - 1, and 0xbeef, which needs leading zeros and has
\* four different digits.
getrandbits(k) == {Small(48879), Ones(k)}

randint_incl_plus_one(a, b) == a .. (b + 1)
\* random.randint(a, b): both ends included.
randint(a, b) == a .. b

(***************************************************************************)
(* Lists.                                                                  *)
(***************************************************************************)
\* list[i] raises IndexError unless -len <= i < len.
InBounds(list, i) == i < Len(list) /\ i >= 0 - Len(list)

ListGetIndexItself(list, i) == Small(i)
\* list[i], zero-based, a negative i counting from the end.
ListGet(list, i) == IF i >= 0 THEN list[i + 1] ELSE list[Len(list) + i + 1]

NextItemReversed(list, k) == list[Len(list) - k]
\* the item a for loop over list yields after k items.
NextItem(list, k) == list[k + 1]

(***************************************************************************)
(* Formatting: f"{number:08x}\n".                                          *)
(***************************************************************************)
HexChars == <<"0", "1", "2", "3", "4", "5", "6", "7",
              "8", "9", "a", "b", "c", "d", "e", "f">>

RECURSIVE ToHex(_)
\* format type x: the digits of n >= 0 in base 16, lowercase, no padding.
ToHex(n) == IF Below(n, 16) THEN <<HexChars[n.lo + 1]>>
            ELSE ToHex(FloorDiv(n, 16)) \o <<HexChars[Mod(n, 16) + 1]>>

RECURSIVE ZeroFill(_, _)
\* the 0 flag with a width: zeros on the left up to w characters, never a cut.
ZeroFill(s, w) == IF Len(s) >= w THEN s ELSE ZeroFill(<<"0">> \o s, w)

Format08xNoPad(n) == ToHex(n)
\* f"{number:08x}"
Format08x(n) == ZeroFill(ToHex(n), Width)

\* f"{number:08x}\n"
LineText(n) == Format08x(n) \o <<"\n">>

NoReduce(n) == n
\* getrandbits(32) % 32
Reduce(n) == Small(Mod(n, GapModulus))

(***************************************************************************)
(* Files.                                                                  *)
(***************************************************************************)
HeadInfo == "head_info.txt"
BuffAddr == "buff_addr.txt"
BuffGapn == "buff_gapn.txt"
\* the file the completion message of line 27 names.
MessageFile == "random_numbers_hex.txt"

FileNames == {HeadInfo, BuffAddr, BuffGapn, MessageFile}

ThirdNameFromMessage == MessageFile
\* the name passed to open() on line 23.
ThirdName == BuffGapn

KeepContent(content) == content
\* open(name, 'w') truncates what the file held.
OpenW(content) == <<>>

\* the disk after open(name, 'w') succeeded: the file exists and is cut.
Created(disk, name) ==
    [n \in (DOMAIN disk) \cup {name} |->
        IF n = name
        THEN OpenW(IF name \in DOMAIN disk THEN disk[name] ELSE <<>>)
        ELSE disk[n]]

WriteReplaces(content, text) == text
\* file.write(text) puts text after what the file holds.
Write(content, text) == content \o text

LeftOpen(open, name) == open
\* the end of a with block closes its file, on every way out.
WithExit(open, name) == open \ {name}

Swallowed(resume) == resume
\* no try statement anywhere: an exception ends the script where it is raised.
OnError(resume) == "failed"

\* a file left by an earlier run or by anything else.
Stale == <<"o", "l", "d", "\n", "o", "l", "d", "\n", "o", "l", "d", "\n">>
EmptyDisk == [n \in {} |-> <<>>]
StaleDisk == [n \in FileNames |-> Stale]

(***************************************************************************)
(* The initial state: nothing drawn, nothing open, some disk.              *)
(***************************************************************************)
Init ==
    /\ pc = "L4"
    /\ random_flow = <<>>
    /\ random_numbers = <<>>
    /\ comp = <<>>
    /\ handles = {}
    /\ it = 0
    /\ stdout = <<>>
    /\ error = "none"
    /\ draws = <<>>
    /\ opened = <<>>
    /\ disk0 \in {EmptyDisk, StaleDisk}
    /\ fs = disk0

(***************************************************************************)
(* The list comprehensions of lines 4, 6, 14 and 21: one draw a step; the  *)
(* name is bound when the comprehension is complete.                       *)
(***************************************************************************)
\* line 4: random_flow = [random.getrandbits(32) for _ in range(64)]
DrawPool ==
    /\ pc = "L4"
    /\ \E r \in getrandbits(Bits) :
         LET c == Append(comp, r) IN
         /\ draws' = Append(draws, r)
         /\ IF Len(c) = PoolSize
            THEN random_flow' = c /\ comp' = <<>> /\ pc' = "L6"
            ELSE comp' = c /\ UNCHANGED <<random_flow, pc>>
    /\ UNCHANGED <<random_numbers, handles, it, fs, stdout, error, opened, disk0>>

\* line 6: random_numbers = [random_flow[random.randint(0,63)] for _ in range(2048)]
Resample ==
    /\ pc = "L6"
    /\ \E i \in randint(0, MaxIndex) :
         /\ draws' = Append(draws, Small(i))
         /\ IF InBounds(random_flow, i)
            THEN LET c == Append(comp, ListGet(random_flow, i)) IN
                 /\ IF Len(c) = NumLines
                    THEN random_numbers' = c /\ comp' = <<>> /\ pc' = "L9"
                    ELSE comp' = c /\ UNCHANGED <<random_numbers, pc>>
                 /\ UNCHANGED error
            ELSE /\ error' = "IndexError"
                 /\ pc' = OnError("L6")
                 /\ UNCHANGED <<random_numbers, comp>>
    /\ UNCHANGED <<random_flow, handles, it, fs, stdout, opened, disk0>>

\* line 14: random_flow = [random.getrandbits(32) for _ in range(2048)]
DrawAddr ==
    /\ pc = "L14"
    /\ \E r \in getrandbits(Bits) :
         LET c == Append(comp, r) IN
         /\ draws' = Append(draws, r)
         /\ IF Len(c) = NumLines
            THEN random_flow' = c /\ comp' = <<>> /\ pc' = "L16"
            ELSE comp' = c /\ UNCHANGED <<random_flow, pc>>
    /\ UNCHANGED <<random_numbers, handles, it, fs, stdout, error, opened, disk0>>

\* line 21: random_flow = [random.getrandbits(32)%32 for _ in range(2048)]
DrawGapn ==
    /\ pc = "L21"
    /\ \E r \in getrandbits(Bits) :
         LET c == Append(comp, Reduce(r)) IN
         /\ draws' = Append(draws, r)
         /\ IF Len(c) = NumLines
            THEN random_flow' = c /\ comp' = <<>> /\ pc' = "L23"
            ELSE comp' = c /\ UNCHANGED <<random_flow, pc>>
    /\ UNCHANGED <<random_numbers, handles, it, fs, stdout, error, opened, disk0>>

(***************************************************************************)
(* The with blocks of lines 9-11, 16-18 and 23-25.                         *)
(***************************************************************************)
\* with open(name, 'w') as file: the open succeeds.
OpenOk(at, name, body) ==
    /\ pc = at
    /\ fs' = Created(fs, name)
    /\ handles' = handles \cup {name}
    /\ opened' = Append(opened, name)
    /\ it' = 0
    /\ pc' = body
    /\ UNCHANGED <<random_flow, random_numbers, comp, stdout, error, draws, disk0>>

\* with open(name, 'w') as file: the open raises OSError, nothing is created.
OpenRaises(at) ==
    /\ pc = at
    /\ error' = "OSError"
    /\ pc' = OnError(at)
    /\ UNCHANGED <<random_flow, random_numbers, comp, handles, it, fs,
                   stdout, draws, opened, disk0>>

\* for number in list: file.write(f"{number:08x}\n"), one item.
WriteOk(at, name, list) ==
    /\ pc = at
    /\ it < Len(list)
    /\ fs' = [fs EXCEPT ![name] = Write(@, LineText(NextItem(list, it)))]
    /\ it' = it + 1
    /\ UNCHANGED <<pc, random_flow, random_numbers, comp, handles, stdout,
                   error, draws, opened, disk0>>

\* file.write raises OSError: the with block closes the file on the way out.
WriteRaises(at, name, list) ==
    /\ pc = at
    /\ it < Len(list)
    /\ error' = "OSError"
    /\ handles' = WithExit(handles, name)
    /\ pc' = OnError(at)
    /\ UNCHANGED <<random_flow, random_numbers, comp, it, fs, stdout,
                   draws, opened, disk0>>

\* the for loop is exhausted: the with block ends and closes the file.
LoopEnd(at, name, list, after) ==
    /\ pc = at
    /\ it = Len(list)
    /\ handles' = WithExit(handles, name)
    /\ pc' = after
    /\ UNCHANGED <<random_flow, random_numbers, comp, it, fs, stdout,
                   error, draws, opened, disk0>>

OpenHeadInfo == OpenOk("L9", HeadInfo, "L10")
WriteHeadInfo == WriteOk("L10", HeadInfo, random_numbers)
CloseHeadInfo == LoopEnd("L10", HeadInfo, random_numbers, "L14")

OpenBuffAddr == OpenOk("L16", BuffAddr, "L17")
WriteBuffAddr == WriteOk("L17", BuffAddr, random_flow)
CloseBuffAddr == LoopEnd("L17", BuffAddr, random_flow, "L21")

OpenBuffGapn == OpenOk("L23", ThirdName, "L24")
WriteBuffGapn == WriteOk("L24", ThirdName, random_flow)
CloseBuffGapn == LoopEnd("L24", ThirdName, random_flow, "L27")

OpenFails == OpenRaises("L9") \/ OpenRaises("L16") \/ OpenRaises("L23")

WriteFails ==
    \/ WriteRaises("L10", HeadInfo, random_numbers)
    \/ WriteRaises("L17", BuffAddr, random_flow)
    \/ WriteRaises("L24", ThirdName, random_flow)

\* line 27: the completion message, which names MessageFile.
PrintDone ==
    /\ pc = "L27"
    /\ stdout' = Append(stdout, MessageFile)
    /\ pc' = "done"
    /\ UNCHANGED <<random_flow, random_numbers, comp, handles, it, fs,
                   error, draws, opened, disk0>>

Next ==
    \/ DrawPool
    \/ Resample
    \/ OpenHeadInfo
    \/ WriteHeadInfo
    \/ CloseHeadInfo
    \/ DrawAddr
    \/ OpenBuffAddr
    \/ WriteBuffAddr
    \/ CloseBuffAddr
    \/ DrawGapn
    \/ OpenBuffGapn
    \/ WriteBuffGapn
    \/ CloseBuffGapn
    \/ PrintDone
    \/ OpenFails
    \/ WriteFails

Spec == Init /\ [][Next]_vars

(***************************************************************************)
(* What a reader of the files sees.                                        *)
(***************************************************************************)
OutputFiles == {HeadInfo, BuffAddr, BuffGapn}
\* the files this run has opened.
Touched == {opened[i] : i \in DOMAIN opened}

HexDigitSet == {HexChars[i] : i \in DOMAIN HexChars}
\* where the lines of c end: at its newlines, and after its last character
\* when that is not a newline.
LineEnds(c) == {i \in DOMAIN c : c[i] = "\n"}
               \cup (IF Len(c) > 0 /\ c[Len(c)] # "\n" THEN {Len(c) + 1} ELSE {})
\* c cut at its newlines; a last line without a newline is a line too.
Lines(c) ==
    LET ends == LineEnds(c)
        EndOf(k) == CHOOSE e \in ends : Cardinality({x \in ends : x < e}) = k - 1
    IN [k \in 1 .. Cardinality(ends) |->
          SubSeq(c, IF k = 1 THEN 1 ELSE EndOf(k - 1) + 1, EndOf(k) - 1)]
\* every line of c ends with a newline.
Terminated(c) == Len(c) = 0 \/ c[Len(c)] = "\n"
\* c holds exactly n lines.
HasLines(c, n) == Terminated(c) /\ Len(Lines(c)) = n

HexValue == [ch \in HexDigitSet |-> CHOOSE d \in 0 .. 15 : HexChars[d + 1] = ch]
\* the value of the k-th digit of s from the right, 0 past its left end.
DigitFromRight(s, k) == IF k <= Len(s) THEN HexValue[s[Len(s) - k + 1]] ELSE 0
\* the value of the last four digits of s.
Low4(s) == DigitFromRight(s, 1) + 16 * DigitFromRight(s, 2)
           + 256 * DigitFromRight(s, 3) + 4096 * DigitFromRight(s, 4)
RECURSIVE HexInt(_)
HexInt(s) == IF Len(s) <= 4 THEN Low4(s)
             ELSE HexInt(SubSeq(s, 1, Len(s) - 4)) * Limb + Low4(s)
\* int(s, 16), as two limbs.
ParseHex(s) == IF Len(s) <= 4 THEN Int2(0, Low4(s))
               ELSE Int2(HexInt(SubSeq(s, 1, Len(s) - 4)), Low4(s))
\* 0 <= v < 2^32
InWord(v) == v.hi >= 0 /\ v.hi < 2^16 /\ v.lo >= 0 /\ v.lo < 2^16
\* a line of exactly 8 lowercase hexadecimal digits.
IsHex8(l) == Len(l) = 8 /\ \A j \in DOMAIN l : l[j] \in HexDigitSet

RECURSIVE Render(_)
\* the text of a file that holds the values of list, one a line.
Render(list) == IF Len(list) = 0 THEN <<>>
                ELSE LineText(Head(list)) \o Render(Tail(list))

\* the parts of the draw sequence, in the order the script draws them.
PoolDraws == SubSeq(draws, 1, PoolSize)
IndexDraws == SubSeq(draws, PoolSize + 1, PoolSize + NumLines)
AddrDraws == SubSeq(draws, PoolSize + NumLines + 1, PoolSize + 2 * NumLines)
GapnDraws == SubSeq(draws, PoolSize + 2 * NumLines + 1, PoolSize + 3 * NumLines)
PoolSet == {PoolDraws[i] : i \in DOMAIN PoolDraws}

(***************************************************************************)
(* C1: when the script has run to its end without an error, each of        *)
(* head_info.txt, buff_addr.txt and buff_gapn.txt exists and holds exactly *)
(* NumLines (2048 in the script) newline-terminated lines, whatever was    *)
(* drawn and whatever the disk held before.                                *)
(***************************************************************************)
C1_LineCount ==
    (pc = "done" /\ error = "none") =>
        \A f \in OutputFiles : f \in DOMAIN fs /\ HasLines(fs[f], NumLines)

C1_Witness ==
    /\ pc = "done"
    /\ error = "none"
    /\ disk0 = StaleDisk
    /\ HasLines(fs[BuffGapn], NumLines)

(***************************************************************************)
(* C2: every line of a file this run has opened, at every moment, is       *)
(* exactly 8 lowercase hexadecimal digits followed by a newline, and every *)
(* value the script holds for writing lies in 0 .. 2^32 - 1.               *)
(***************************************************************************)
C2_LineShape ==
    /\ \A f \in Touched :
         LET L == Lines(fs[f]) IN
         /\ Terminated(fs[f])
         /\ \A i \in DOMAIN L : IsHex8(L[i])
    /\ \A i \in DOMAIN random_numbers : InWord(random_numbers[i])
    /\ \A i \in DOMAIN random_flow : InWord(random_flow[i])

C2_Witness ==
    /\ pc = "L21"
    /\ Lines(fs[BuffAddr]) = << <<"0", "0", "0", "0", "b", "e", "e", "f">>,
                                <<"f", "f", "f", "f", "f", "f", "f", "f">> >>

(***************************************************************************)
(* C3: every line of buff_gapn.txt written by this run reads as a value of *)
(* 0 .. 31: its first six characters are 0, its seventh is 0 or 1.         *)
(***************************************************************************)
C3_GapRange ==
    BuffGapn \in Touched =>
        LET L == Lines(fs[BuffGapn]) IN
        \A i \in DOMAIN L :
            /\ Len(L[i]) = 8
            /\ Below(ParseHex(L[i]), 32)
            /\ \A j \in 1 .. 6 : L[i][j] = "0"
            /\ L[i][7] \in {"0", "1"}

C3_Witness ==
    /\ pc = "done"
    /\ Lines(fs[BuffGapn]) = << <<"0", "0", "0", "0", "0", "0", "1", "f">>,
                                <<"0", "0", "0", "0", "0", "0", "0", "f">> >>

\* the values head_info.txt reads as.
C4_HeadValues == LET L == Lines(fs[HeadInfo]) IN {ParseHex(L[i]) : i \in DOMAIN L}

(***************************************************************************)
(* C4: every line of head_info.txt written by this run reads as an element *)
(* of the pool drawn at the start (the first PoolSize draws), so the file  *)
(* holds at most PoolSize (64) distinct values; while line 6 resamples,    *)
(* random_flow is that pool and no step changes it.                        *)
(***************************************************************************)
C4_FromPool ==
    /\ [](HeadInfo \in Touched =>
            LET V == C4_HeadValues IN
            V \subseteq PoolSet /\ Cardinality(V) <= PoolSize)
    /\ [](pc = "L6" => random_flow = PoolDraws)
    /\ [][pc = "L6" => random_flow' = random_flow]_vars

C4_Witness ==
    /\ pc = "done"
    /\ Cardinality(PoolSet) = 2
    /\ Lines(fs[HeadInfo])[1] = Lines(fs[HeadInfo])[2]

\* the order of the with blocks in the script.
C5_Order == <<HeadInfo, BuffAddr, BuffGapn>>

(***************************************************************************)
(* C5: at most one file is open at any moment; files are opened in the     *)
(* order head_info.txt, buff_addr.txt, buff_gapn.txt; and a step opens a   *)
(* file only when no file is open and every file opened before holds all   *)
(* NumLines of its lines.                                                  *)
(***************************************************************************)
C5_OneAtATime ==
    /\ [](Cardinality(handles) <= 1)
    /\ [](Len(opened) <= 3 /\ opened = SubSeq(C5_Order, 1, Len(opened)))
    /\ [][opened' # opened =>
            /\ handles = {}
            /\ \A f \in Touched : HasLines(fs[f], NumLines)]_vars

C5_Witness ==
    /\ pc = "L24"
    /\ handles = {BuffGapn}
    /\ it = 1
    /\ HasLines(fs[HeadInfo], NumLines)
    /\ HasLines(fs[BuffAddr], NumLines)

\* the three files as a function of a draw sequence d.
C6_Expected(d) ==
    LET pool == SubSeq(d, 1, PoolSize)
        idx == SubSeq(d, PoolSize + 1, PoolSize + NumLines)
        addr == SubSeq(d, PoolSize + NumLines + 1, PoolSize + 2 * NumLines)
        gapn == SubSeq(d, PoolSize + 2 * NumLines + 1, PoolSize + 3 * NumLines)
    IN [f \in OutputFiles |->
          IF f = HeadInfo
          THEN Render([i \in DOMAIN idx |-> pool[idx[i].lo + 1]])
          ELSE IF f = BuffAddr
          THEN Render(addr)
          ELSE Render([i \in DOMAIN gapn |-> Small(gapn[i].lo % 32)])]

(***************************************************************************)
(* C6: when the script has run to its end, the draw sequence is PoolSize   *)
(* pool draws, NumLines index draws, NumLines draws for buff_addr.txt and  *)
(* NumLines draws for buff_gapn.txt, and the content of each of the three  *)
(* files is a function of that sequence alone: two runs fed the same draws *)
(* write the same bytes, whatever the disk held before.                    *)
(***************************************************************************)
C6_Deterministic ==
    (pc = "done" /\ error = "none") =>
        /\ Len(draws) = PoolSize + 3 * NumLines
        /\ \A f \in OutputFiles : f \in DOMAIN fs /\ fs[f] = C6_Expected(draws)[f]

C6_Witness ==
    /\ pc = "done"
    /\ disk0 = StaleDisk
    /\ fs[HeadInfo] # fs[BuffAddr]
    /\ fs[BuffAddr] = C6_Expected(draws)[BuffAddr]

(***************************************************************************)
(* C7: once open() or write() has raised, the script is over: it stays     *)
(* stopped, nothing is printed, and no later step opens or writes a file;  *)
(* at the failing step every file opened and closed before it holds its    *)
(* NumLines lines, and keeps them.                                         *)
(***************************************************************************)
C7_FailStop ==
    /\ [](error = "OSError" => pc = "failed" /\ stdout = <<>>)
    /\ [][error = "OSError" => UNCHANGED <<fs, opened, handles, stdout>>]_vars
    /\ [][(error = "none" /\ error' = "OSError") =>
            /\ Len(opened') <= Len(opened)
            /\ \A f \in Touched \ handles :
                   HasLines(fs[f], NumLines) /\ fs'[f] = fs[f]]_vars

C7_Witness ==
    /\ error = "OSError"
    /\ pc = "failed"
    /\ opened = <<HeadInfo, BuffAddr>>
    /\ HasLines(fs[HeadInfo], NumLines)
    /\ HasLines(fs[BuffAddr], 1)

\* the text c is the values of list, one a line, and reads back as them.
C8_Matches(c, list) ==
    LET L == Lines(c) IN
    /\ Terminated(c)
    /\ Len(L) = Len(list)
    /\ \A i \in DOMAIN list :
         L[i] = Format08x(list[i]) /\ ParseHex(L[i]) = list[i]

(***************************************************************************)
(* C8: a file that has been written and closed is exactly the rendering of *)
(* the list generated for it, line i being element i and reading back as   *)
(* element i (for buff_gapn.txt draw i modulo 32), with nothing before or  *)
(* after, whatever the file held before the run; while a file is being     *)
(* written it holds the first lines of that rendering.                     *)
(***************************************************************************)
C8_LineIsElement ==
    /\ pc \in {"L14", "done"} => C8_Matches(fs[HeadInfo], random_numbers)
    /\ pc = "L21" => C8_Matches(fs[BuffAddr], random_flow)
    /\ pc = "L27" => C8_Matches(fs[BuffGapn], random_flow)
    /\ pc = "done" =>
         /\ C8_Matches(fs[BuffAddr], AddrDraws)
         /\ C8_Matches(fs[BuffGapn],
                       [i \in DOMAIN GapnDraws |-> Small(GapnDraws[i].lo % 32)])
    /\ pc = "L10" => fs[HeadInfo] = Render(SubSeq(random_numbers, 1, it))
    /\ pc = "L17" => fs[BuffAddr] = Render(SubSeq(random_flow, 1, it))
    /\ pc = "L24" => fs[BuffGapn] = Render(SubSeq(random_flow, 1, it))

C8_Witness ==
    /\ pc = "done"
    /\ disk0 = StaleDisk
    /\ random_numbers[1] # random_numbers[2]
    /\ AddrDraws[1] # AddrDraws[2]
    /\ GapnDraws[1] # GapnDraws[2]

(***************************************************************************)
(* C9: no resampling pick falls outside the pool: when line 6 runs the     *)
(* pool has PoolSize (64) entries, every index drawn is one of             *)
(* 0 .. PoolSize - 1, and IndexError is never raised.  (That the first and *)
(* the last position can both be picked is the witness.)                   *)
(***************************************************************************)
C9_IndexInBounds ==
    /\ error # "IndexError"
    /\ pc = "L6" => Len(random_flow) = PoolSize
    /\ \A k \in DOMAIN draws :
         (k > PoolSize /\ k <= PoolSize + NumLines) =>
             Below(draws[k], PoolSize)

C9_Witness ==
    /\ pc = "L9"
    /\ draws[PoolSize + 1] = Small(0)
    /\ draws[PoolSize + 2] = Small(PoolSize - 1)
    /\ random_numbers = <<PoolDraws[1], PoolDraws[PoolSize]>>
    /\ PoolDraws[1] # PoolDraws[PoolSize]

(***************************************************************************)
(* C10: the run opens no file but head_info.txt, buff_addr.txt and         *)
(* buff_gapn.txt, and every other file is as the run found it (absent or   *)
(* unchanged), random_numbers_hex.txt included; a run that reaches its end *)
(* has opened exactly those three and printed a message naming             *)
(* random_numbers_hex.txt.                                                 *)
(***************************************************************************)
C10_OnlyThreeFiles ==
    /\ Touched \subseteq OutputFiles
    /\ \A n \in FileNames \ OutputFiles :
         /\ n \in DOMAIN fs <=> n \in DOMAIN disk0
         /\ n \in DOMAIN fs => fs[n] = disk0[n]
    /\ DOMAIN fs = (DOMAIN disk0) \cup Touched
    /\ pc = "done" =>
         /\ Touched = OutputFiles
         /\ Len(opened) = 3
         /\ stdout = <<MessageFile>>

C10_Witness ==
    /\ pc = "done"
    /\ disk0 = EmptyDisk
    /\ MessageFile \notin DOMAIN fs
    /\ stdout = <<MessageFile>>
    /\ DOMAIN fs = OutputFiles

====
